---- MODULE Spec2Model ----
(***************************************************************************)
(* A model of necolo/react-state (src/src/index.tsx): the Container        *)
(* pub/sub box, the per-model context binding, the Provider / Processor    *)
(* pair that runs a model and reports its result after commit, the         *)
(* useModel consumer hook, and the Providers composer.                     *)
(***************************************************************************)
EXTENDS Integers, Sequences, FiniteSets, TLC

\* ------------------------------------------------------------------ bounds
MaxValue == 2          \* largest counter value the Counter model reaches
MaxArgs == 1           \* longest argument vector passed to a Provider
MaxModels == 3         \* longest configuration list given to Providers
MaxRenders == 3        \* renders of Providers with one list object
NumListeners == 3      \* listeners the Container harness registers

ProviderIds == {"P"}
ConsumerIds == {"c1"}
Models == {"Counter", "Sum"}
\* Container objects are named by how they came to be: the Container that was
\* created while model m had no context yet (it becomes that context's default)
\* is named after m, and any other Container a Provider creates is named after
\* the Provider slot.
ContainerIds == Models \cup ProviderIds
DepsKinds == {"none", "value", "empty"}
ArgVals == {0, 1}

\* ------------------------------------------------------------- JS values
Undefined == [t |-> "undef", v |-> 0]
Num(n) == [t |-> "num", v |-> n]
Obj(n) == [t |-> "obj", v |-> n]

\* `!x` is false exactly for the truthy values: objects and non-zero numbers.
Truthy(x) == x.t = "obj" \/ (x.t = "num" /\ x.v # 0)

\* a === b on the values above (numbers by value; undefined equals itself).
StrictEq(a, b) == a = b

\* isEquals(v1, v2): same length and v1.every((v, i) => v === v2[i]).
isEquals(v1, v2) ==
    IF Len(v1) # Len(v2) THEN FALSE
    ELSE \A i \in 1..Len(v1) : StrictEq(v1[i], v2[i])

Range(s) == {s[i] : i \in 1..Len(s)}

\* --------------------------------------------------------------- Container
\* The Set of subscribers is a duplicate-free sequence in insertion order.
ContainerSubDup(subs, l) == Append(subs, l)

ContainerSub(subs, l) == IF l \in Range(subs) THEN subs ELSE Append(subs, l)

ContainerUnsubNone(subs, l) == subs

ContainerUnsub(subs, l) == SelectSeq(subs, LAMBDA x : x # l)

\* notify(): forEach visits the listeners in insertion order; the result
\* is the sequence of listeners invoked.
ContainerNotifyNone(subs) == <<>>

ContainerNotify(subs) == subs

\* notify() when the listeners in `throwing` raise: forEach has no try/catch, so
\* the first exception leaves the loop and propagates to notify's caller
NotifyThrowing(subs, throwing) ==
    IF \E i \in 1..Len(subs) : subs[i] \in throwing
    THEN LET first == CHOOSE i \in 1..Len(subs) :
                         /\ subs[i] \in throwing
                         /\ \A j \in 1..(i - 1) : subs[j] \notin throwing
         IN  SubSeq(subs, 1, first)
    ELSE ContainerNotify(subs)

\* ------------------------------------------------------------------- state
VARIABLES
    state,        \* Container.state, per Container
    subscribers,  \* Container.subscribers, per Container
    context,      \* model.context: the Container that is the context's default, or "unset"
    provider,     \* per Provider slot: its hooks, props and its Processor
    consumer,     \* per consumer slot: the useModel hook instance
    batch,        \* TRUE while the renders of one commit are being collected
    removed,      \* <<Container, listener>> pairs unsub removed and sub has not added again (observation only)
    event,        \* what the last step did (observation only)
    registered,   \* harness: listeners currently registered by direct sub/unsub calls
    everReg,      \* harness: listeners ever passed to sub
    before,       \* harness: <<a, b>> when a's current registration precedes b's
    firstBefore,  \* harness: <<a, b>> when a's first-ever registration precedes b's
    models,       \* the caller's list passed to Providers
    nesting,      \* the Provider nesting Providers last returned, outermost first
    given,        \* the list as the caller built it (observation only)
    renders       \* how many times Providers has rendered with this list object

vars == <<state, subscribers, context, provider, consumer, batch, removed, event,
          registered, everReg, before, firstBefore, models, nesting, given, renders>>

treeVars == <<state, subscribers, context, provider, consumer, batch, removed>>
harnessVars == <<registered, everReg, before, firstBefore>>
composerVars == <<models, nesting, given, renders>>

\* the README's CounterModel starts at useState(1)
InitialCount == 1

\* args prop: undefined, or an array object with an identity (ref) and elements.
\* Identity is only ever compared with the previous render's args, so the args a
\* Processor holds are kept with ref 0 and a new array object is given ref 1.
NoArgs == [def |-> FALSE, ref |-> 0, elems |-> <<>>]
ArgVectors == UNION {[1..n -> {Num(a) : a \in ArgVals}] : n \in 0..MaxArgs}
ArgsOrEmpty(a) == IF a.def THEN a.elems ELSE <<>>
SameRef(a, b) == a.def = b.def /\ (a.def => a.ref = b.ref)

NoProvider ==
    [mounted |-> FALSE, model |-> "Counter", container |-> "none", isReady |-> FALSE,
     shown |-> FALSE, dirty |-> FALSE, args |-> NoArgs, memo |-> FALSE,
     hook |-> InitialCount, procDirty |-> FALSE, result |-> Undefined,
     effect |-> FALSE, hasRef |-> FALSE, refCurrent |-> Undefined]
\* hasRef: a modelRef prop is given; refCurrent: modelRef.current

NoConsumer ==
    [status |-> "unmounted", parent |-> "none", container |-> "none",
     deps |-> "none", state |-> Undefined, depsRef |-> <<>>, returned |-> Undefined,
     dirty |-> FALSE, lastSeen |-> Undefined, propsDeps |-> "none", shadowRef |-> <<>>]
\* lastSeen (observation only): for a consumer with a projection function, the
\* Container value it observed last, at mount or at the latest notify.
\* propsDeps: the deps prop of the <Consumer> element that made the call ("none"
\* for a direct call of the hook); shadowRef (observation only): the vector
\* useModel(model, props.deps) would have recorded.

NoEvent ==
    [type |-> "none", who |-> "none", cid |-> "none", called |-> <<>>, pulled |-> {},
     invoked |-> FALSE, raised |-> FALSE, seen |-> Undefined, parent |-> "none",
     memo |-> FALSE, args |-> NoArgs, refSeen |-> Undefined, threw |-> {}]

Init ==
    /\ state = [c \in ContainerIds |-> Undefined]
    /\ subscribers = [c \in ContainerIds |-> <<>>]
    /\ context = [m \in Models |-> "unset"]
    /\ provider = [p \in ProviderIds |-> NoProvider]
    /\ consumer = [c \in ConsumerIds |-> NoConsumer]
    /\ batch = FALSE
    /\ removed = {}
    /\ event = NoEvent
    /\ registered = {}
    /\ everReg = {}
    /\ before = {}
    /\ firstBefore = {}
    /\ models = <<>>
    /\ nesting = <<>>
    /\ given = <<>>
    /\ renders = 0

\* ------------------------------------------------------------------ models
RECURSIVE SumArgs(_)
SumArgs(elems) == IF elems = <<>> THEN 0 ELSE Head(elems).v + SumArgs(Tail(elems))

\* props.model(...args): the README's CounterModel returns {value, increase};
\* Sum is (...args) => args.reduce((a, b) => a + b, 0).
ModelResult(m, args, hook) ==
    IF m = "Counter" THEN Obj(hook) ELSE Num(SumArgs(ArgsOrEmpty(args)))

\* --------------------------------------------------------- getModelContext
GetModelContextLastWins(ctx, m, cid) == [ctx EXCEPT ![m] = cid]

GetModelContext(ctx, m, cid) == IF ctx[m] # "unset" THEN ctx ELSE [ctx EXCEPT ![m] = cid]

\* --------------------------------------------------- Processor's React.memo
\* the comparator: TRUE means "props are equal, skip the render".
MemoSkipAlways(prevArgs, nextArgs, nextMemo) == nextMemo

MemoSkipNever(prevArgs, nextArgs, nextMemo) == FALSE

MemoSkip(prevArgs, nextArgs, nextMemo) ==
    IF ~nextMemo THEN FALSE
    ELSE IF SameRef(prevArgs, nextArgs) THEN TRUE
    ELSE isEquals(ArgsOrEmpty(prevArgs), ArgsOrEmpty(nextArgs))


\* ---------------------------------------------------- useModel's subscriber
\* deps(container.state): "value" is v => [v.value], "empty" is v => [], and
\* "small" is v => v.value < 2 ? [v.value] : [], a vector that becomes empty.
ProjectionKinds == DepsKinds \cup {"small"}

Project(kind, s) ==
    IF kind = "value" THEN <<IF s.t = "obj" THEN Num(s.v) ELSE Undefined>>
    ELSE IF kind = "small" /\ s.t = "obj" /\ s.v < 2 THEN <<Num(s.v)>>
    ELSE <<>>

\* setState(container.state): React re-renders unless the value is Object.is-equal
\* to the current one; every model result object is a fresh object.
SetStateDropped(rec, s) == rec

SetState(rec, s) ==
    [rec EXCEPT !.state = s, !.dirty = rec.dirty \/ s.t = "obj" \/ s # rec.state]

\* whether the subscriber of consumer `rec` calls setState for Container value s
PullsNoLengthCheck(rec, s) ==
    IF rec.deps = "none" THEN TRUE
    ELSE ~isEquals(rec.depsRef, Project(rec.deps, s))

Pulls(rec, s) ==
    IF rec.deps = "none" THEN TRUE
    ELSE LET oldDeps == rec.depsRef
             newDeps == Project(rec.deps, s)
         IN  Len(newDeps) # 0 /\ ~isEquals(oldDeps, newDeps)

Subscriber(rec, s) ==
    LET pulled == IF Pulls(rec, s) THEN SetState(rec, s) ELSE rec
    IN  [pulled EXCEPT
            !.depsRef = IF rec.deps = "none" THEN rec.depsRef ELSE Project(rec.deps, s),
            !.shadowRef = IF rec.propsDeps = "none" THEN rec.shadowRef
                          ELSE Project(rec.propsDeps, s),
            !.lastSeen = IF rec.deps = "none" THEN rec.lastSeen ELSE s]

\* this.subscribers.forEach((sub) => sub()): run the listeners in order
RECURSIVE RunListeners(_, _, _)
RunListeners(cons, called, s) ==
    IF called = <<>> THEN cons
    ELSE LET c == Head(called)
         IN  RunListeners([cons EXCEPT ![c] = Subscriber(cons[c], s)], Tail(called), s)

\* unmounting a subtree runs the effect cleanup of every consumer in it
UnsubAllNone(subs, set) == subs

RECURSIVE UnsubAll(_, _)
UnsubAll(subs, set) ==
    IF set = {} THEN subs
    ELSE LET c == CHOOSE x \in set : TRUE
         IN  UnsubAll(ContainerUnsub(subs, c), set \ {c})

\* The README mounts CounterModel without args; Sum is given any vector.
ArgsChoices(m) ==
    IF m = "Counter" THEN {NoArgs}
    ELSE {NoArgs} \cup {[def |-> TRUE, ref |-> 0, elems |-> e] : e \in ArgVectors}

\* what a parent can pass next: the same object again, nothing, or a new array
NextArgsChoices(m, prev) ==
    IF m = "Counter" THEN {NoArgs}
    ELSE {prev, NoArgs} \cup {[def |-> TRUE, ref |-> 1, elems |-> e] : e \in ArgVectors}

Held(a) == [a EXCEPT !.ref = 0]

AllArgs == {NoArgs} \cup [def : {TRUE}, ref : {0, 1}, elems : ArgVectors]

Hosted(c) == consumer[c].status \in {"rendered", "subscribed"}

\* new Container(): an object nothing refers to yet.  A Container no Provider,
\* context or consumer refers to any more is garbage, and its identity is reused.
Reachable(cid) ==
    \/ \E p \in ProviderIds : provider[p].mounted /\ provider[p].container = cid
    \/ \E m \in Models : context[m] = cid
    \/ \E c \in ConsumerIds : Hosted(c) /\ consumer[c].container = cid

\* React runs every post-commit effect of a commit before it renders again:
\* renders join the commit being collected, or wait until no effect is pending.
PendingEffects ==
    \/ \E p \in ProviderIds : provider[p].effect
    \/ \E c \in ConsumerIds : consumer[c].status = "rendered"

CanRender == batch \/ ~PendingEffects

NewContainer(m, p) == IF context[m] = "unset" THEN m ELSE p

\* onChange: if (!isReady) setReady(true) -- the value of the isReady hook after it
OnChangeReadyToggle(isReady) == ~isReady

OnChangeReady(isReady) == IF ~isReady THEN TRUE ELSE isReady

\* {isReady && props.children}: whether a render of the Provider renders its children
ChildrenShownAlways(isReady) == TRUE

ChildrenShown(isReady) == isReady

\* onChange runs `container.state = value` before `container.notify()`: the
\* Container state a listener reads, given the state before the report and the
\* reported value
NotifySeesOld(old, value) == old

NotifySees(old, value) == value

\* if (props.modelRef) props.modelRef.current = value; the parent passes the
\* same cell, or none, at every render
Mirror(hasRef, current, value) == IF hasRef THEN value ELSE current

\* ----------------------------------------------------------------- Provider
\* first render of a Provider: new Container, context binding, Processor mounts
\* and invokes the model; children are withheld (isReady is false).
ProviderMount(p, m, a, memo, ref) ==
    /\ CanRender
    /\ batch' = TRUE
    /\ ~provider[p].mounted
    /\ a \in ArgsChoices(m)
    /\ ~Reachable(NewContainer(m, p))
    /\ LET cid == NewContainer(m, p) IN
        /\ state' = [state EXCEPT ![cid] = Undefined]
        /\ subscribers' = [subscribers EXCEPT ![cid] = <<>>]
        /\ removed' = {pr \in removed : pr[1] # cid}
        /\ context' = GetModelContext(context, m, cid)
        /\ provider' = [provider EXCEPT ![p] =
              [NoProvider EXCEPT !.mounted = TRUE, !.model = m, !.container = cid,
                                 !.args = a, !.memo = memo, !.hasRef = ref,
                                 !.shown = ChildrenShown(FALSE),
                                 !.result = ModelResult(m, a, InitialCount),
                                 !.effect = TRUE]]
        /\ event' = [NoEvent EXCEPT !.type = "ProviderMount", !.who = p, !.cid = cid,
                                    !.invoked = TRUE]
    /\ UNCHANGED consumer
    /\ UNCHANGED <<harnessVars, composerVars>>

\* a later render of a mounted Provider (its parent re-rendered, or setReady did).
\* When the comparator lets the Processor keep its props, a state update the
\* model itself scheduled still renders the Processor: that is ProcessorRender,
\* which may follow in the same commit.
ProviderRender(p, a, memo) ==
    LET pr == provider[p]
        skip == MemoSkip(pr.args, a, memo)
    IN  /\ CanRender
        /\ batch' = TRUE
        /\ pr.mounted
        /\ ~pr.effect
        /\ a \in NextArgsChoices(pr.model, pr.args)
        /\ context' = GetModelContext(context, pr.model, pr.container)
        /\ provider' = [provider EXCEPT ![p] =
              IF skip
              THEN [pr EXCEPT !.shown = ChildrenShown(pr.isReady), !.dirty = FALSE,
                              !.memo = memo]
              ELSE [pr EXCEPT !.shown = ChildrenShown(pr.isReady), !.dirty = FALSE,
                              !.memo = memo,
                              !.args = Held(a), !.procDirty = FALSE,
                              !.result = ModelResult(pr.model, a, pr.hook),
                              !.effect = TRUE]]
        /\ event' = [NoEvent EXCEPT !.type = "ProviderRender", !.who = p,
                                    !.cid = pr.container, !.invoked = ~skip,
                                    !.memo = memo, !.args = a]
        /\ UNCHANGED <<state, subscribers, consumer, removed>>
        /\ UNCHANGED <<harnessVars, composerVars>>

\* the Processor re-renders on its own because the model's state changed
ProcessorRender(p) ==
    LET pr == provider[p]
    IN  /\ CanRender
        /\ batch' = TRUE
        /\ pr.mounted
        /\ pr.procDirty
        /\ ~pr.effect
        /\ provider' = [provider EXCEPT ![p] =
              [pr EXCEPT !.procDirty = FALSE,
                         !.result = ModelResult(pr.model, pr.args, pr.hook),
                         !.effect = TRUE]]
        /\ event' = [NoEvent EXCEPT !.type = "ProcessorRender", !.who = p,
                                    !.cid = pr.container, !.invoked = TRUE]
        /\ UNCHANGED <<state, subscribers, context, consumer, removed>>
        /\ UNCHANGED <<harnessVars, composerVars>>

\* the Processor's post-commit effect: props.onChange(result).  The isReady the
\* closure holds can be stale only as false while the hook is already true, and
\* then setReady(true) changes nothing.
Report(p) ==
    LET pr == provider[p]
        cid == pr.container
        called == ContainerNotify(subscribers[cid])
        read == NotifySees(state[cid], pr.result)
        mirrored == Mirror(pr.hasRef, pr.refCurrent, pr.result)
    IN  /\ batch' = FALSE
        /\ pr.mounted
        /\ pr.effect
        /\ state' = [state EXCEPT ![cid] = pr.result]
        /\ consumer' = RunListeners(consumer, called, read)
        /\ provider' = [provider EXCEPT ![p] =
              [pr EXCEPT !.effect = FALSE, !.isReady = OnChangeReady(pr.isReady),
                         !.refCurrent = mirrored,
                         !.dirty = pr.dirty \/ OnChangeReady(pr.isReady) # pr.isReady]]
        /\ event' = [NoEvent EXCEPT !.type = "Report", !.who = p, !.cid = cid,
                                    !.called = called, !.seen = read,
                                    !.refSeen = mirrored,
                                    !.pulled = {c \in Range(called) :
                                                   Pulls(consumer[c], read)}]
        /\ UNCHANGED <<subscribers, context, removed>>
        /\ UNCHANGED <<harnessVars, composerVars>>

ProviderUnmount(p) ==
    LET pr == provider[p]
        kids == {c \in ConsumerIds : consumer[c].parent = p /\ consumer[c].status # "unmounted"}
    IN  /\ CanRender
        /\ batch' = TRUE
        /\ pr.mounted
        /\ ~pr.effect
        /\ \A c \in kids : consumer[c].status # "rendered"
        /\ subscribers' = [subscribers EXCEPT ![pr.container] =
              UnsubAll(@, {c \in kids : consumer[c].status = "subscribed"})]
        /\ removed' = IF \E m \in Models : context[m] = pr.container
                      THEN removed \cup {<<pr.container, c>> :
                              c \in {k \in kids : consumer[k].status = "subscribed"}}
                      ELSE {x \in removed : x[1] # pr.container}
        /\ consumer' = [c \in ConsumerIds |-> IF c \in kids THEN NoConsumer ELSE consumer[c]]
        /\ provider' = [provider EXCEPT ![p] = NoProvider]
        /\ event' = [NoEvent EXCEPT !.type = "ProviderUnmount", !.who = p, !.cid = pr.container]
        \* a Container that is not a context's default is unreachable from here on
        /\ state' = IF \E m \in Models : context[m] = pr.container THEN state
                    ELSE [state EXCEPT ![pr.container] = Undefined]
        /\ UNCHANGED context
        /\ UNCHANGED <<harnessVars, composerVars>>


\* <Consumer model deps>: `useModel(props.model)` -- the deps the hook is given
ConsumerDeps(pd) == "none"

\* ----------------------------------------------------------------- useModel
\* first render of a component calling useModel(m, deps).  Under a Provider of m
\* whose children are rendered, useContext gives that Provider's Container;
\* with no such ancestor it gives the context's default value, and
\* getModelContext(m) creates the context (around a new empty Container) when
\* the model has none yet.
ConsumerMount(c, m, par, d, pd) ==
    /\ CanRender
    /\ batch' = TRUE
    /\ consumer[c].status = "unmounted"
    /\ \/ /\ par \in ProviderIds
          /\ provider[par].mounted
          /\ provider[par].shown
          /\ provider[par].model = m
       \/ /\ par = "none"
          /\ context[m] = "unset" => ~Reachable(NewContainer(m, par))
    /\ LET fresh == par = "none" /\ context[m] = "unset"
           cid == IF par \in ProviderIds THEN provider[par].container
                  ELSE IF fresh THEN NewContainer(m, par)
                  ELSE context[m]
           s == IF fresh THEN Undefined ELSE state[cid]
           raised == ~Truthy(s)
       IN  /\ state' = IF fresh THEN [state EXCEPT ![cid] = Undefined] ELSE state
           /\ subscribers' = IF fresh THEN [subscribers EXCEPT ![cid] = <<>>] ELSE subscribers
           /\ removed' = IF fresh THEN {pr \in removed : pr[1] # cid} ELSE removed
           /\ context' = IF par = "none" THEN GetModelContext(context, m, cid) ELSE context
           /\ consumer' = [consumer EXCEPT ![c] =
                 IF raised THEN [NoConsumer EXCEPT !.status = "error"]
                 ELSE [NoConsumer EXCEPT !.status = "rendered",
                                         !.parent = par, !.container = cid, !.deps = d,
                                         !.propsDeps = pd,
                                         !.state = s, !.returned = s,
                                         !.lastSeen = IF d = "none" THEN Undefined ELSE s]]
           /\ event' = [NoEvent EXCEPT !.type = "ConsumerMount", !.who = c, !.cid = cid,
                                       !.raised = raised, !.seen = s, !.parent = par]
    /\ UNCHANGED provider
    /\ UNCHANGED <<harnessVars, composerVars>>

\* the mount effect: container.sub(subscriber).  Effects run in tree order, and
\* the Processor precedes the Provider's children.
ConsumerSubscribe(c) ==
    /\ batch' = FALSE
    /\ consumer[c].status = "rendered"
    /\ consumer[c].parent \in ProviderIds => ~provider[consumer[c].parent].effect
    /\ subscribers' = [subscribers EXCEPT ![consumer[c].container] = ContainerSub(@, c)]
    /\ removed' = removed \ {<<consumer[c].container, c>>}
    /\ consumer' = [consumer EXCEPT ![c].status = "subscribed"]
    /\ event' = [NoEvent EXCEPT !.type = "ConsumerSubscribe", !.who = c,
                                !.cid = consumer[c].container]
    /\ UNCHANGED <<state, context, provider>>
    /\ UNCHANGED <<harnessVars, composerVars>>

\* the re-render a setState scheduled; a throwing render unmounts the component,
\* which runs the effect's cleanup
ConsumerRender(c) ==
    LET rec == consumer[c]
        raised == ~Truthy(rec.state)
    IN  /\ CanRender
        /\ batch' = TRUE
        /\ rec.status = "subscribed"
        /\ rec.dirty
        /\ consumer' = [consumer EXCEPT ![c] =
              IF raised THEN [NoConsumer EXCEPT !.status = "error"]
              ELSE [rec EXCEPT !.returned = rec.state, !.dirty = FALSE]]
        /\ subscribers' = IF raised
                          THEN [subscribers EXCEPT ![rec.container] = ContainerUnsub(@, c)]
                          ELSE subscribers
        /\ removed' = IF raised THEN removed \cup {<<rec.container, c>>} ELSE removed
        /\ event' = [NoEvent EXCEPT !.type = "ConsumerRender", !.who = c,
                                    !.cid = rec.container, !.raised = raised,
                                    !.seen = state[rec.container], !.parent = rec.parent]
        /\ UNCHANGED <<state, context, provider>>
        /\ UNCHANGED <<harnessVars, composerVars>>

\* unmount: the effect's cleanup runs container.unsub(subscriber)
ConsumerUnmount(c) ==
    LET rec == consumer[c]
    IN  /\ CanRender
        /\ batch' = TRUE
        /\ rec.status \in {"subscribed", "error"}
        /\ subscribers' = IF rec.status = "subscribed"
                          THEN [subscribers EXCEPT ![rec.container] = ContainerUnsub(@, c)]
                          ELSE subscribers
        /\ removed' = IF rec.status = "subscribed"
                      THEN removed \cup {<<rec.container, c>>}
                      ELSE removed
        /\ consumer' = [consumer EXCEPT ![c] = NoConsumer]
        /\ event' = [NoEvent EXCEPT !.type = "ConsumerUnmount", !.who = c,
                                    !.cid = rec.container]
        /\ UNCHANGED <<state, context, provider>>
        /\ UNCHANGED <<harnessVars, composerVars>>

\* an event handler (effects are flushed before it runs) calls the increase() of
\* the value useModel returned:
\* setValue(value + 1) with the value that render of the model closed over
Increase(c) ==
    LET rec == consumer[c]
    IN  /\ ~PendingEffects
        /\ UNCHANGED batch
        /\ Hosted(c)
        /\ rec.returned.t = "obj"
        /\ rec.returned.v + 1 <= MaxValue
        /\ \E p \in ProviderIds :
              /\ provider[p].mounted
              /\ provider[p].container = rec.container
              /\ provider' = [provider EXCEPT ![p] =
                    [@ EXCEPT !.hook = rec.returned.v + 1,
                              !.procDirty = @ \/ provider[p].hook # rec.returned.v + 1]]
        /\ event' = [NoEvent EXCEPT !.type = "Increase", !.who = c, !.cid = rec.container]
        /\ UNCHANGED <<state, subscribers, context, consumer, removed>>
        /\ UNCHANGED <<harnessVars, composerVars>>

Next ==
    \/ \E p \in ProviderIds, m \in Models, a \in AllArgs, memo \in BOOLEAN :
          ProviderMount(p, m, a, memo, FALSE)
    \/ \E p \in ProviderIds, a \in AllArgs, memo \in BOOLEAN :
          ProviderRender(p, a, memo)
    \/ \E p \in ProviderIds : ProcessorRender(p)
    \/ \E p \in ProviderIds : Report(p)
    \/ \E p \in ProviderIds : ProviderUnmount(p)
    \/ \E c \in ConsumerIds, m \in Models, par \in ProviderIds \cup {"none"}, d \in DepsKinds :
          ConsumerMount(c, m, par, d, "none")
    \/ \E c \in ConsumerIds : ConsumerSubscribe(c)
    \/ \E c \in ConsumerIds : ConsumerRender(c)
    \/ \E c \in ConsumerIds : ConsumerUnmount(c)
    \/ \E c \in ConsumerIds : Increase(c)

Spec == Init /\ [][Next]_vars


\* The README's application: a Provider of CounterModel with a consumer child,
\* nothing unmounts.  React eventually runs every render and effect it scheduled.
NextApp ==
    \/ \E p \in ProviderIds, memo \in BOOLEAN : ProviderMount(p, "Counter", NoArgs, memo, FALSE)
    \/ \E p \in ProviderIds, memo \in BOOLEAN : ProviderRender(p, NoArgs, memo)
    \/ \E p \in ProviderIds : ProcessorRender(p)
    \/ \E p \in ProviderIds : Report(p)
    \/ \E c \in ConsumerIds, par \in ProviderIds, d \in DepsKinds :
          ConsumerMount(c, "Counter", par, d, "none")
    \/ \E c \in ConsumerIds : ConsumerSubscribe(c)
    \/ \E c \in ConsumerIds : ConsumerRender(c)
    \/ \E c \in ConsumerIds : Increase(c)

LiveSpec ==
    /\ Init
    /\ [][NextApp]_vars
    /\ WF_vars(\E p \in ProviderIds : ProcessorRender(p))
    /\ WF_vars(\E p \in ProviderIds : Report(p))
    /\ WF_vars(\E c \in ConsumerIds : ConsumerSubscribe(c))
    /\ WF_vars(\E c \in ConsumerIds : ConsumerRender(c))

\* A Provider that is given, or not given, a modelRef cell and stays mounted,
\* with consumers among its children that call useModel with any projection.
NextMounted ==
    \/ \E p \in ProviderIds, m \in Models, a \in AllArgs, memo \in BOOLEAN, ref \in BOOLEAN :
          ProviderMount(p, m, a, memo, ref)
    \/ \E p \in ProviderIds, a \in AllArgs, memo \in BOOLEAN :
          ProviderRender(p, a, memo)
    \/ \E p \in ProviderIds : ProcessorRender(p)
    \/ \E p \in ProviderIds : Report(p)
    \/ \E c \in ConsumerIds, m \in Models, par \in ProviderIds, d \in ProjectionKinds :
          ConsumerMount(c, m, par, d, "none")
    \/ \E c \in ConsumerIds : ConsumerSubscribe(c)
    \/ \E c \in ConsumerIds : ConsumerRender(c)
    \/ \E c \in ConsumerIds : Increase(c)

SpecMounted == Init /\ [][NextMounted]_vars

\* A Provider that stays mounted, with <Consumer> elements among its children.
NextConsumer ==
    \/ \E p \in ProviderIds, m \in Models, a \in AllArgs, memo \in BOOLEAN :
          ProviderMount(p, m, a, memo, FALSE)
    \/ \E p \in ProviderIds, a \in AllArgs, memo \in BOOLEAN :
          ProviderRender(p, a, memo)
    \/ \E p \in ProviderIds : ProcessorRender(p)
    \/ \E p \in ProviderIds : Report(p)
    \/ \E c \in ConsumerIds, m \in Models, par \in ProviderIds, pd \in DepsKinds :
          ConsumerMount(c, m, par, ConsumerDeps(pd), pd)
    \/ \E c \in ConsumerIds : ConsumerSubscribe(c)
    \/ \E c \in ConsumerIds : ConsumerRender(c)
    \/ \E c \in ConsumerIds : Increase(c)

SpecConsumer == Init /\ [][NextConsumer]_vars

\* the re-render of a Provider that setReady(true) scheduled: its parent did
\* not render, so the props are the same objects as before
ReadyRender(p) ==
    /\ provider[p].dirty
    /\ ProviderRender(p, provider[p].args, provider[p].memo)

\* A Provider mounts and nothing outside it happens afterwards: no parent
\* re-render, no change of the model's state, no unmount.  Consumers mount as
\* the tree renders them.  React runs every render and effect it scheduled.
NextSettle ==
    \/ \E p \in ProviderIds, m \in Models, a \in AllArgs, memo \in BOOLEAN :
          ProviderMount(p, m, a, memo, FALSE)
    \/ \E p \in ProviderIds : ReadyRender(p)
    \/ \E p \in ProviderIds : Report(p)
    \/ \E c \in ConsumerIds, m \in Models, par \in ProviderIds \cup {"none"}, d \in DepsKinds :
          ConsumerMount(c, m, par, d, "none")
    \/ \E c \in ConsumerIds : ConsumerSubscribe(c)
    \/ \E c \in ConsumerIds : ConsumerRender(c)

SettleSpec ==
    /\ Init
    /\ [][NextSettle]_vars
    /\ WF_vars(\E p \in ProviderIds : ReadyRender(p))
    /\ WF_vars(\E p \in ProviderIds : Report(p))
    /\ WF_vars(\E c \in ConsumerIds : ConsumerSubscribe(c))
    /\ WF_vars(\E c \in ConsumerIds : ConsumerRender(c))

\* -------------------------------------------------------- Container harness
\* Direct calls of a Container's methods with arbitrary listeners, as the class
\* allows: sub and unsub in any order, any listener any number of times.
Listeners == 1..NumListeners
HarnessCid == "P"

HSub(l) ==
    /\ subscribers' = [subscribers EXCEPT ![HarnessCid] = ContainerSub(@, l)]
    /\ registered' = registered \cup {l}
    /\ everReg' = everReg \cup {l}
    /\ before' = IF l \in registered THEN before
                 ELSE before \cup {<<x, l>> : x \in registered}
    /\ firstBefore' = IF l \in everReg THEN firstBefore
                      ELSE firstBefore \cup {<<x, l>> : x \in everReg}
    /\ event' = [NoEvent EXCEPT !.type = "sub", !.cid = HarnessCid]
    /\ UNCHANGED <<state, context, provider, consumer, batch, removed, composerVars>>

HUnsub(l) ==
    /\ subscribers' = [subscribers EXCEPT ![HarnessCid] = ContainerUnsub(@, l)]
    /\ registered' = registered \ {l}
    /\ before' = {pr \in before : pr[1] # l /\ pr[2] # l}
    /\ event' = [NoEvent EXCEPT !.type = "unsub", !.cid = HarnessCid]
    /\ UNCHANGED <<everReg, firstBefore>>
    /\ UNCHANGED <<state, context, provider, consumer, batch, removed, composerVars>>

HNotify ==
    /\ event' = [NoEvent EXCEPT !.type = "notify", !.cid = HarnessCid,
                                !.called = ContainerNotify(subscribers[HarnessCid])]
    /\ UNCHANGED <<treeVars, harnessVars, composerVars>>

\* notify() while the listeners in `throwing` raise an exception when invoked
HNotifyThrow(throwing) ==
    /\ throwing # {}
    /\ event' = [NoEvent EXCEPT !.type = "notifyThrow", !.cid = HarnessCid,
                                !.called = NotifyThrowing(subscribers[HarnessCid], throwing),
                                !.threw = throwing,
                                !.raised = \E l \in Range(subscribers[HarnessCid]) :
                                              l \in throwing]
    /\ UNCHANGED <<treeVars, harnessVars, composerVars>>

NextContainer ==
    \/ \E l \in Listeners : HSub(l)
    \/ \E l \in Listeners : HUnsub(l)
    \/ HNotify
    \/ \E throwing \in SUBSET Listeners : HNotifyThrow(throwing)

SpecContainer == Init /\ [][NextContainer]_vars

\* ---------------------------------------------------------------- Providers
\* a configuration is {model, memo}
Configs == [model : Models, memo : BOOLEAN]
ConfigLists == UNION {[1..n -> Configs] : n \in 0..MaxModels}

\* Array.prototype.reverse(): reverses the array in place and returns it
ArrayReverse(list) == [i \in 1..Len(list) |-> list[Len(list) + 1 - i]]

\* list.reduce((children, props) => <Provider {...props}>{children}</Provider>, children):
\* the nesting built so far, outermost Provider first
RECURSIVE ReduceWrap(_, _)
ReduceWrap(list, children) ==
    IF list = <<>> THEN children
    ELSE ReduceWrap(Tail(list), <<Head(list)>> \o children)

\* the caller builds a list object
PassList(l) ==
    /\ models' = l
    /\ given' = l
    /\ nesting' = <<>>
    /\ renders' = 0
    /\ event' = [NoEvent EXCEPT !.type = "PassList"]
    /\ UNCHANGED <<treeVars, harnessVars>>

\* one render of <Providers models={list}>: props.models.reverse().reduce(...)
ProvidersRender ==
    /\ renders < MaxRenders
    /\ models' = ArrayReverse(models)
    /\ nesting' = ReduceWrap(ArrayReverse(models), <<>>)
    /\ renders' = renders + 1
    /\ event' = [NoEvent EXCEPT !.type = "ProvidersRender"]
    /\ UNCHANGED given
    /\ UNCHANGED <<treeVars, harnessVars>>

NextProviders ==
    \/ \E l \in ConfigLists : PassList(l)
    \/ ProvidersRender

SpecProviders == Init /\ [][NextProviders]_vars


\* ================================================================== claims

\* C1 (as stated): when notify is called after any sequence of sub/unsub calls,
\* every listener registered at that time is invoked exactly once, and the
\* invocations are in the order in which the listeners were FIRST registered.
C1_NotifyInFirstRegistrationOrder ==
    event.type = "notify" =>
        /\ Len(event.called) = Cardinality(registered)
        /\ Range(event.called) = registered
        /\ \A i, j \in 1..Len(event.called) :
              i < j => <<event.called[i], event.called[j]>> \in firstBefore

\* C1 (amended): when notify is called after any sequence of sub/unsub calls,
\* every listener registered at that time is invoked exactly once (also when it
\* was passed to sub more than once), and the invocations are in the order of
\* the listeners' current registrations: a listener that was removed and
\* registered again is invoked after those registered in between.
C1_NotifyOnceInRegistrationOrder ==
    event.type = "notify" =>
        /\ Len(event.called) = Cardinality(registered)
        /\ Range(event.called) = registered
        /\ \A i, j \in 1..Len(event.called) :
              i < j => <<event.called[i], event.called[j]>> \in before

\* a notify that invokes several listeners, one of them re-registered after a
\* listener that was first registered later than it
C1_Witness ==
    /\ event.type = "notify"
    /\ Len(event.called) >= 2
    /\ \E i, j \in 1..Len(event.called) :
          i < j /\ <<event.called[j], event.called[i]>> \in firstBefore

\* no effect and no re-render is pending anywhere
Quiescent ==
    /\ \A p \in ProviderIds :
          ~provider[p].effect /\ ~provider[p].dirty /\ ~provider[p].procDirty
    /\ \A c \in ConsumerIds : consumer[c].status # "rendered" /\ ~consumer[c].dirty

\* C2: once no effect or re-render is pending, every mounted consumer that
\* called useModel without a projection function returns the current state of
\* the Container it resolved (no report between its first render and the
\* registration of its listener is lost).
C2_QuiescentConsumerIsCurrent ==
    Quiescent =>
        \A c \in ConsumerIds :
            (consumer[c].status = "subscribed" /\ consumer[c].deps = "none")
                => consumer[c].returned = state[consumer[c].container]

\* C3: a consumer with a projection function pulls on a notify only when the
\* projected vector of the Container's value differs, by shallow comparison,
\* from the projected vector of the value the consumer observed last (at mount
\* for the first notify, at the previous notify afterwards).
C3_PullOnlyOnProjectedChange ==
    [][\A c \in ConsumerIds :
          (event'.type = "Report" /\ c \in event'.pulled /\ consumer[c].deps # "none")
              => ~isEquals(Project(consumer[c].deps, consumer[c].lastSeen),
                           Project(consumer[c].deps, state'[event'.cid]))]_vars


\* C4: with a Provider of the counter model mounted and a child consumer (no
\* projection function) subscribed and showing value 1, invoking increase leads
\* to a state where the model has been re-invoked with value 2, the Container
\* holds the value-2 result and the consumer returns the value-2 result.
C4_IncreaseReachesConsumer ==
    \A c \in ConsumerIds :
        (/\ event.type = "Increase"
         /\ event.who = c
         /\ consumer[c].status = "subscribed"
         /\ consumer[c].parent \in ProviderIds
         /\ consumer[c].deps = "none"
         /\ consumer[c].returned = Obj(InitialCount))
        ~> (/\ \E p \in ProviderIds :
                  /\ provider[p].mounted
                  /\ provider[p].container = consumer[c].container
                  /\ provider[p].result = Obj(InitialCount + 1)
            /\ state[consumer[c].container] = Obj(InitialCount + 1)
            /\ consumer[c].returned = Obj(InitialCount + 1))

\* the consumer shows the value-2 result the Container holds
C4_Witness ==
    \E c \in ConsumerIds :
        /\ consumer[c].status = "subscribed"
        /\ consumer[c].deps = "none"
        /\ ~consumer[c].dirty
        /\ consumer[c].returned = Obj(InitialCount + 1)
        /\ state[consumer[c].container] = Obj(InitialCount + 1)

\* C5: a listener that unsub removed from a Container before a notify call is
\* not invoked by that call, nor by any later one, unless it is registered again.
C5_RemovedListenerNotInvoked ==
    event.type = "Report" =>
        \A l \in Range(event.called) : <<event.cid, l>> \notin removed

\* a notify on a Container from which a consumer's listener was removed
C5_Witness ==
    /\ event.type = "Report"
    /\ \E l \in ConsumerIds : <<event.cid, l>> \in removed

\* C6: useModel called from a component with no ancestor Provider of the model
\* raises the uninitialized-model error, also when a Provider of the model is or
\* was mounted elsewhere and has reported a value.
C6_NoProviderRaises ==
    (event.type = "ConsumerMount" /\ event.parent = "none") => event.raised

\* C7: useModel raises only when the resolved Container's value is absent: a
\* consumer rendered under a Provider that has completed a report never raises,
\* whatever value the model returned.
C7_ChildOfReadyProviderNeverRaises ==
    (event.type \in {"ConsumerMount", "ConsumerRender"} /\ event.parent \in ProviderIds)
        => ~event.raised

\* the claim's "reference-identical, or of equal length and pairwise identical"
ArgsIdentical(prev, next) ==
    \/ SameRef(prev, next)
    \/ /\ Len(ArgsOrEmpty(prev)) = Len(ArgsOrEmpty(next))
       /\ \A i \in 1..Len(ArgsOrEmpty(prev)) : ArgsOrEmpty(prev)[i] = ArgsOrEmpty(next)[i]

\* the claim's "differs in length or in any element"
ArgsDiffer(prev, next) ==
    \/ Len(ArgsOrEmpty(prev)) # Len(ArgsOrEmpty(next))
    \/ \E i \in 1..Len(ArgsOrEmpty(prev)) : ArgsOrEmpty(prev)[i] # ArgsOrEmpty(next)[i]

\* C8: when a Provider with memo enabled re-renders with args identical to the
\* previous ones, that render does not invoke the model, schedules no report,
\* leaves every Container's state alone and invokes no listener.
C8_MemoSkipsIdenticalArgs ==
    [][\A p \in ProviderIds :
          (/\ event'.type = "ProviderRender"
           /\ event'.who = p
           /\ event'.memo
           /\ ArgsIdentical(provider[p].args, event'.args))
          => (/\ ~event'.invoked
              /\ event'.called = <<>>
              /\ provider'[p].effect = provider[p].effect
              /\ provider'[p].result = provider[p].result
              /\ state' = state
              /\ consumer' = consumer)]_vars

\* a memo render skipped for a new array with the same elements
C8_Witness ==
    /\ event.type = "ProviderRender"
    /\ event.memo
    /\ ~event.invoked
    /\ event.args.def /\ event.args.ref = 1 /\ Len(event.args.elems) >= 1

\* C9: when a Provider re-renders with args that differ from the previous ones,
\* or without memo, the model is invoked in that render and a report of its
\* result is scheduled; a scheduled report is never dropped: it ends only by
\* writing that result into the Container and notifying its listeners.
C9_DifferentArgsAlwaysInvoke ==
    [][\A p \in ProviderIds :
          /\ (/\ event'.type = "ProviderRender"
              /\ event'.who = p
              /\ (~event'.memo \/ ArgsDiffer(provider[p].args, event'.args)))
             => (/\ event'.invoked
                 /\ provider'[p].effect
                 /\ provider'[p].args = Held(event'.args))
          /\ (provider[p].effect /\ ~provider'[p].effect)
             => (/\ event'.type = "Report"
                 /\ event'.who = p
                 /\ state'[provider[p].container] = provider[p].result
                 /\ event'.called = subscribers[provider[p].container])]_vars

\* a memo render with a longer vector invoked the model
C9_Witness ==
    /\ event.type = "ProviderRender"
    /\ event.memo
    /\ event.invoked
    /\ \E p \in ProviderIds : event.who = p /\ provider[p].effect
    /\ Len(ArgsOrEmpty(event.args)) >= 1

\* C10: on every render of Providers, also the second and later ones with the
\* same list object, the first entry of the list the caller built is the
\* outermost Provider and the last entry the innermost.
C10_NestingFollowsListOrder ==
    renders > 0 => nesting = given

\* C11: a mounted Provider renders its children only while it is Ready and its
\* Container has been written by a report; it becomes Ready in its first report
\* and in no other step, and once Ready it stays Ready until it unmounts,
\* whatever renders and reports follow.
C11_ChildrenOnlyWhenReady ==
    [][\A p \in ProviderIds :
          /\ provider'[p].shown =>
                /\ provider'[p].isReady
                /\ state'[provider'[p].container] # Undefined
          /\ (~provider[p].isReady /\ provider'[p].isReady) =>
                (event'.type = "Report" /\ event'.who = p)
          /\ (event'.type = "Report" /\ event'.who = p) =>
                (provider'[p].isReady /\ state'[event'.cid] # Undefined)
          /\ (provider[p].isReady /\ ~provider'[p].isReady) =>
                (event'.type = "ProviderUnmount" /\ event'.who = p)]_vars

\* a Provider that shows its children has re-rendered and reported again
C11_Witness ==
    /\ event.type = "Report"
    /\ \E p \in ProviderIds :
          /\ event.who = p
          /\ provider[p].shown
          /\ provider[p].isReady
          /\ ~provider[p].dirty

\* C12: every report, also one whose value is identical to the previous one,
\* writes the reported value into the Provider's Container, mirrors it into the
\* reference cell when one was given, and then calls notify once: each
\* registered listener runs once, and what it reads from the Container, and
\* what the reference cell holds at that time, is the newly reported value.
C12_ReportWritesMirrorsThenNotifies ==
    [][\A p \in ProviderIds :
          (event'.type = "Report" /\ event'.who = p) =>
              /\ state'[provider[p].container] = provider[p].result
              /\ provider[p].hasRef => provider'[p].refCurrent = provider[p].result
              /\ ~provider[p].hasRef => provider'[p].refCurrent = provider[p].refCurrent
              /\ event'.called = subscribers[provider[p].container]
              /\ event'.called # <<>> =>
                    /\ event'.seen = provider[p].result
                    /\ provider[p].hasRef => event'.refSeen = provider[p].result
              /\ \A c \in Range(event'.called) :
                    consumer[c].deps = "none" => consumer'[c].state = provider[p].result]_vars

\* a report of the number the Container already held reached a listener that
\* takes every value, with a reference cell given
C12_Witness ==
    /\ event.type = "Report"
    /\ \E p \in ProviderIds :
          /\ event.who = p
          /\ provider[p].hasRef
          /\ provider[p].refCurrent = event.seen
          /\ provider[p].shown
    /\ \E c \in ConsumerIds :
          /\ c \in event.pulled
          /\ consumer[c].deps = "none"
          /\ consumer[c].state = event.seen
          /\ consumer[c].returned = event.seen
          /\ event.seen.t = "num"
          /\ ~consumer[c].dirty

\* C13: during a notify call an exception raised by one listener does not keep
\* the listeners registered after it from running: every listener registered
\* at the time of the call is invoked.
C13_ThrowingListenerDoesNotStopOthers ==
    event.type = "notifyThrow" => Range(event.called) = registered

\* C14: a <Consumer> given a projection function pulls a new value on exactly
\* the notifications on which useModel(model, projectionFn) would: when the
\* projected vector is non-empty and differs from the one recorded at the
\* previous notification.
C14_ConsumerFilteredByProjection ==
    [][\A c \in ConsumerIds :
          (/\ event'.type = "Report"
           /\ c \in Range(event'.called)
           /\ consumer[c].propsDeps # "none")
          => (c \in event'.pulled <=>
                Pulls([deps |-> consumer[c].propsDeps, depsRef |-> consumer[c].shadowRef],
                      state'[event'.cid]))]_vars

\* C15: the first getModelContext call for a model binds its channel, with the
\* Container supplied by the calling Provider, or a new empty Container when
\* the call comes from useModel, as the fallback; no later call for that model,
\* with or without a Container argument, changes the binding or the fallback.
C15_ContextFirstWriterWins ==
    [][\A m \in Models :
          /\ context[m] # "unset" => context'[m] = context[m]
          /\ (context[m] = "unset" /\ context'[m] # "unset") =>
                \/ /\ event'.type = "ProviderMount"
                   /\ provider'[event'.who].model = m
                   /\ context'[m] = provider'[event'.who].container
                \/ /\ event'.type = "ConsumerMount"
                   /\ event'.parent = "none"
                   /\ context'[m] = event'.cid
                   /\ state'[context'[m]] = Undefined
                   /\ subscribers'[context'[m]] = <<>>
                   /\ \A p \in ProviderIds :
                         provider[p].mounted => provider[p].container # context'[m]
          /\ (event'.type = "ProviderMount" /\ provider'[event'.who].model = m) =>
                context'[m] # "unset"]_vars

\* a Provider mounted with its own Container for a model whose channel already
\* has another Container as its fallback
C15_Witness ==
    /\ event.type = "ProviderMount"
    /\ \E p \in ProviderIds :
          /\ event.who = p
          /\ provider[p].container = p
          /\ context[provider[p].model] \in Models

\* C16: in every reachable state each listener in a Container's listener set
\* belongs to a consumer that is mounted and subscribed to that Container, and
\* no consumer has more than one listener registered: the mount effect adds it
\* and the unmount cleanup removes it, so no listener outlives its consumer.
C16_ListenersBelongToMountedConsumers ==
    /\ \A cid \in ContainerIds :
          /\ Cardinality(Range(subscribers[cid])) = Len(subscribers[cid])
          /\ \A l \in Range(subscribers[cid]) :
                /\ l \in ConsumerIds
                /\ consumer[l].status = "subscribed"
                /\ consumer[l].container = cid
    /\ \A c \in ConsumerIds :
          Cardinality({cid \in ContainerIds : c \in Range(subscribers[cid])}) <= 1

\* a consumer that was subscribed has unmounted, alone or with its Provider,
\* and the Container it listened to is still referenced
C16_Witness ==
    /\ event.type \in {"ConsumerUnmount", "ProviderUnmount"}
    /\ \E c \in ConsumerIds :
          /\ <<event.cid, c>> \in removed
          /\ consumer[c].status = "unmounted"

\* element-wise identity of two vectors of the same length
ShallowEqual(v1, v2) ==
    /\ Len(v1) = Len(v2)
    /\ \A i \in 1..Len(v1) : v1[i] = v2[i]

\* C17: on each notify the listener of a consumer with a projection function
\* computes the new vector from the Container's current value and pulls that
\* value into local state if and only if the new vector is non-empty and not
\* shallow-equal to the recorded vector, which is empty before the first
\* notify; afterwards the recorded vector is the new vector, pull or no pull.
C17_PullIffNonEmptyAndChanged ==
    [][\A c \in ConsumerIds :
          /\ (event'.type = "ConsumerSubscribe" /\ event'.who = c) =>
                consumer'[c].depsRef = <<>>
          /\ (/\ event'.type = "Report"
              /\ c \in Range(event'.called)
              /\ consumer[c].deps # "none")
             => LET new == Project(consumer[c].deps, state'[event'.cid])
                IN  /\ c \in event'.pulled <=>
                          (Len(new) # 0 /\ ~ShallowEqual(consumer[c].depsRef, new))
                    /\ c \in event'.pulled => consumer'[c].state = state'[event'.cid]
                    /\ c \notin event'.pulled =>
                          /\ consumer'[c].state = consumer[c].state
                          /\ consumer'[c].dirty = consumer[c].dirty
                    /\ consumer'[c].depsRef = new]_vars

\* a notify whose new vector is empty while the recorded one was not: nothing
\* is pulled and the recorded vector becomes empty
C17_Witness ==
    /\ event.type = "Report"
    /\ \E c \in ConsumerIds :
          /\ c \in Range(event.called)
          /\ c \notin event.pulled
          /\ consumer[c].deps = "small"
          /\ consumer[c].depsRef = <<>>
          /\ consumer[c].state = Obj(InitialCount)
          /\ state[event.cid] # consumer[c].state

\* C18: rendering Providers leaves the caller's list of configurations as it
\* was: after any number of renders it has the same entries in the same order
\* as before the first render.
C18_CallerListUnchanged ==
    models = given

\* C19: after a Provider mounts, with consumers mounting or subscribed and no
\* further outside event, the render / report / setReady / notify / consumer
\* re-render cycle ends: from some point on no effect and no re-render is
\* pending, so no further model invocation or notify happens.
C19_MountSettles ==
    <>[]Quiescent

\* a Provider without memo has reported, re-rendered as Ready and reported
\* again; a consumer subscribed to its Container in between has been notified
\* and has re-rendered with the value, and all is quiet
C19_Witness ==
    /\ Quiescent
    /\ event.type = "ConsumerRender"
    /\ \E p \in ProviderIds, c \in ConsumerIds :
          /\ provider[p].mounted
          /\ provider[p].shown
          /\ ~provider[p].memo
          /\ consumer[c].container = provider[p].container
          /\ consumer[c].status = "subscribed"
          /\ consumer[c].returned = state[provider[p].container]

\* C20: for a subscribed consumer whose projection function always returns a
\* non-empty vector, after its listener has handled a notify the projected
\* vector of its local state is shallow-equal to the projected vector of the
\* Container's current value: the filter never hides a change of the vector.
C20_FilterNeverHidesProjectedChange ==
    event.type = "Report" =>
        \A c \in Range(event.called) :
            consumer[c].deps = "value" =>
                ShallowEqual(Project(consumer[c].deps, consumer[c].state),
                             Project(consumer[c].deps, state[event.cid]))

\* a notify the filter suppressed: the consumer keeps an older value object
\* whose projected vector equals that of the Container's value
C20_Witness ==
    /\ event.type = "Report"
    /\ \E c \in Range(event.called) :
          /\ consumer[c].deps = "value"
          /\ c \notin event.pulled
          /\ consumer[c].state.t = "obj"
          /\ ~consumer[c].dirty

====
